---------------------------- MODULE Spec2Model ----------------------------
(***************************************************************************)
(* Model of the animation reader of io_scene_tsc (animation.py):           *)
(* read_file / read_animation / read_bone and the three channel decoders   *)
(* decompress_quaternion_keyframes, decompress_quaternion_1_dof_keyframes  *)
(* and decompress_vector_keyframes.                                        *)
(*                                                                         *)
(* Floats are kept symbolic: a raw float is its 32-bit pattern, a scaled   *)
(* integer is a fraction [n, d], and a computed value is a tagged record   *)
(* that names the operands the code combined.                              *)
(***************************************************************************)
EXTENDS Integers, Sequences, FiniteSets, TLC

VARIABLES
    game_type,      \* utils.GameType passed to read_file
    stream,         \* stream_data: the bits of the BitArray, MSB first
    static_count,   \* len(static_data); static_data[i] is kept symbolic
    fps,            \* fps read from the file
    frame_count,    \* frame_count read from the file
    bone_count,     \* bone_count read from the file
    bone_position,  \* file.tell() after bone_count
    end_position,   \* file.tell() after the playback parameters
    pos,            \* file position
    flen,           \* length of the file once a read has met its end, else -1
    maxRead,        \* highest position a read is known to have reached
    bones,          \* bones resolved so far
    cur,            \* the bone read_bone is resolving
    chan,           \* the channel whose decoder is running
    dec,            \* local variables of the running decoder
    reads,          \* history: BitArray reads of the current channel
    padStart,       \* history: file position before the final padding read
    pc,             \* position in read_file
    outcome,        \* what read_file gave its caller
    animation,      \* the Animation returned
    raised          \* history: the exception kind raised inside read_file

vars == <<game_type, stream, static_count, fps, frame_count, bone_count,
          bone_position, end_position, pos, flen, maxRead, bones, cur, chan,
          dec, reads, padStart, pc, outcome, animation, raised>>

-----------------------------------------------------------------------------
(* Bounds of the model *)

MaxKeyframes == 2
MaxBones == 2
ChanOff == 1

-----------------------------------------------------------------------------
(* Game types *)

NewerTypes == {"THESIMS2PETS", "THESIMS2CASTAWAY", "THESIMS3"}

GameTypes == {"THESIMS", "THESIMSBUSTINOUT", "THEURBZ", "THESIMS2"} \cup NewerTypes

\* a value that is none of the seven members matched by read_animation
OtherType == "OTHER"

-----------------------------------------------------------------------------
(* bit_array.BitArray: bit-addressed reads over the 32-bit words.          *)
(* A read returns [err, v]: err is "" or the exception kind raised.        *)
(* zw is what a read of width 0 does, which the contract (widths 1..32)    *)
(* leaves open: "zero" returns 0, "raise" raises ValueError.               *)

ZeroWidthOutcomes == {"zero", "raise"}

RECURSIVE BitsValue(_, _, _)
BitsValue(s, i, w) ==
    IF w = 0 THEN 0 ELSE 2 * BitsValue(s, i, w - 1) + s[i + w]

get_bit(s, i) ==
    IF i + 1 > Len(s) THEN [err |-> "IndexError", v |-> FALSE]
    ELSE [err |-> "", v |-> (s[i + 1] = 1)]

get_bits_unsigned(s, i, w, zw) ==
    IF w = 0
    THEN [err |-> IF zw = "raise" THEN "ValueError" ELSE "", v |-> 0]
    ELSE IF i + w > Len(s) THEN [err |-> "IndexError", v |-> 0]
    ELSE [err |-> "", v |-> BitsValue(s, i, w)]

get_bits_signed(s, i, w, zw) ==
    IF w = 0
    THEN [err |-> IF zw = "raise" THEN "ValueError" ELSE "", v |-> 0]
    ELSE IF i + w > Len(s) THEN [err |-> "IndexError", v |-> 0]
    ELSE [err |-> "",
          v |-> IF s[i + 1] = 1
                THEN (BitsValue(s, i, w) - 2^(w - 1)) - 2^(w - 1)
                ELSE BitsValue(s, i, w)]

get_float(s, i) ==
    IF i + 32 > Len(s) THEN [err |-> "IndexError", v |-> <<>>]
    ELSE [err |-> "", v |-> SubSeq(s, i + 1, i + 32)]

\* 1.0 / (2^(w-1) - 1), as the fraction [n, d]
signed_bits_to_float_scaler(w, zw) ==
    IF w = 1 THEN [err |-> "ZeroDivisionError", v |-> [n |-> 0, d |-> 1]]
    ELSE IF w = 0
    THEN [err |-> IF zw = "raise" THEN "ValueError" ELSE "", v |-> [n |-> -2, d |-> 1]]
    ELSE [err |-> "", v |-> [n |-> 1, d |-> 2^(w - 1) - 1]]

\* 1.0 / (2^w - 1), as the fraction [n, d]
unsigned_bits_to_float_scaler(w) ==
    IF w = 0 THEN [err |-> "ZeroDivisionError", v |-> [n |-> 0, d |-> 1]]
    ELSE [err |-> "", v |-> [n |-> 1, d |-> 2 * (2^(w - 1) - 1) + 1]]

-----------------------------------------------------------------------------
(* Helpers *)

\* the first exception raised by a sequence of calls made in order
RECURSIVE FirstErr(_)
FirstErr(es) ==
    IF es = <<>> THEN ""
    ELSE IF Head(es) # "" THEN Head(es) ELSE FirstErr(Tail(es))

Zero == [n |-> 0, d |-> 1]
One == [n |-> 1, d |-> 1]

\* scale * float(k)
Times(scale, k) == [n |-> scale.n * k, d |-> scale.d]

Rd(f, op, at, w) == [f |-> f, op |-> op, at |-> at, w |-> w]

\* the 32-bit pattern is +inf or -inf
IsInf(b) ==
    /\ \A k \in 2..9 : b[k] = 1
    /\ \A k \in 10..32 : b[k] = 0

frame_count_multiplier(f) == IF f = 60 THEN 1 ELSE 2

-----------------------------------------------------------------------------
(* Local state of a channel decoder.  deltas and stored are history: the   *)
(* delta_time of each keyframe and the fields its value was built from.    *)

NoDec ==
    [kind |-> "none", start |-> 0, index |-> 0, keyframe_count |-> 0,
     delta_time_bit_count |-> 0, bias_bit_count |-> 0, bias_scale |-> Zero,
     value_bit_count |-> 0, value_scale |-> Zero, floats |-> <<>>,
     frame_count |-> 0, keyframes |-> <<>>, deltas |-> <<>>, stored |-> <<>>]

Keyframe(frame, bias, value) == [frame |-> frame, bias |-> bias, value |-> value]

Lin(n, d) == [t |-> "lin", n |-> n, d |-> d]

-----------------------------------------------------------------------------
(* decompress_quaternion_keyframes *)

\* lines 32-53: the header
QuaternionHeader(s, start, zw) ==
    LET kc == get_bits_unsigned(s, start, 20, zw)
        dt == get_bits_unsigned(s, start + 20, 5, zw)
        bb == get_bits_unsigned(s, start + 25, 5, zw)
        bs == IF bb.v = 0 THEN [err |-> "", v |-> Zero]
              ELSE signed_bits_to_float_scaler(bb.v, zw)
        qb == get_bits_unsigned(s, start + 30, 5, zw)
        qs == signed_bits_to_float_scaler(qb.v, zw)
    IN  [err |-> FirstErr(<<kc.err, dt.err, bb.err, bs.err, qb.err, qs.err>>),
         dec |-> [NoDec EXCEPT !.kind = "quat", !.start = start,
                               !.index = start + 35,
                               !.keyframe_count = kc.v,
                               !.delta_time_bit_count = dt.v,
                               !.bias_bit_count = bb.v,
                               !.bias_scale = bs.v,
                               !.value_bit_count = qb.v,
                               !.value_scale = qs.v],
         reads |-> <<Rd("keyframe_count", "get_bits_unsigned", start, 20),
                     Rd("delta_time_bit_count", "get_bits_unsigned", start + 20, 5),
                     Rd("bias_bit_count", "get_bits_unsigned", start + 25, 5),
                     Rd("quaternion_bit_count", "get_bits_unsigned", start + 30, 5)>>]

\* lines 71-82 and 92-103: 1.0 - (a*a + b*b + c*c) over the denominator d,
\* its square root when positive, negated on negate_x, else 0.0
ImplicitComponent(d, a, b, c, negate_x) ==
    LET r == (d * d) - ((a * a) + (b * b) + (c * c))
    IN  IF r > 0 THEN [t |-> "sqrt", n |-> r, d |-> d * d, neg |-> negate_x]
        ELSE Lin(0, 1)

\* lines 66-84: quat[0..2] are the stored fields, quat[3] is computed
NewerQuat(sc, c, negate_x) ==
    LET quat == <<sc.n * c[1], sc.n * c[2], sc.n * c[3], 0>>
        q3 == ImplicitComponent(sc.d, quat[2], quat[3], quat[4], negate_x)
    IN  <<q3, Lin(quat[1], sc.d), Lin(quat[2], sc.d), Lin(quat[3], sc.d)>>

\* lines 87-105: quat[1..3] are the stored fields, quat[0] is computed
OlderQuat(sc, c, negate_x) ==
    LET quat == <<0, sc.n * c[1], sc.n * c[2], sc.n * c[3]>>
        q0 == ImplicitComponent(sc.d, quat[2], quat[3], quat[4], negate_x)
    IN  <<Lin(quat[4], sc.d), q0, Lin(quat[2], sc.d), Lin(quat[3], sc.d)>>

\* lines 56-60: the bias of a keyframe of the quaternion decoder
QuaternionBias(s, d, at, zw) ==
    IF d.bias_bit_count > 0
    THEN LET r == get_bits_signed(s, at, d.bias_bit_count, zw)
         IN  [err |-> r.err, v |-> Times(d.bias_scale, r.v),
              reads |-> <<Rd("bias", "get_bits_signed", at, d.bias_bit_count)>>]
    ELSE [err |-> "", v |-> Zero, reads |-> <<>>]

\* lines 107-115: the frame of the keyframe being appended
FrameOf(fc, f) == (fc * frame_count_multiplier(f)) - 1

\* a frame counter that adds the delta alone
NextFrameCountNoGap(fc, delta_time) == fc + delta_time

\* lines 107: frame_count += delta_time + 1
NextFrameCount(fc, delta_time) == fc + delta_time + 1

\* lines 55-115: one iteration of the loop
QuaternionKeyframe(s, d, gt, f, zw) ==
    LET w  == d.value_bit_count
        dt == get_bits_unsigned(s, d.index, d.delta_time_bit_count, zw)
        i1 == d.index + d.delta_time_bit_count
        bi == QuaternionBias(s, d, i1, zw)
        i2 == i1 + d.bias_bit_count
        i3 == IF gt \in NewerTypes THEN i2 + 1 ELSE i2
        c1 == get_bits_signed(s, i3, w, zw)
        c2 == get_bits_signed(s, i3 + w, w, zw)
        c3 == get_bits_signed(s, i3 + 2 * w, w, zw)
        i4 == i3 + 3 * w
        ng == get_bit(s, i4)
        c  == <<c1.v, c2.v, c3.v>>
        q  == IF gt \in NewerTypes THEN NewerQuat(d.value_scale, c, ng.v)
              ELSE OlderQuat(d.value_scale, c, ng.v)
        fc == NextFrameCount(d.frame_count, dt.v)
    IN  [err |-> FirstErr(<<dt.err, bi.err, c1.err, c2.err, c3.err, ng.err>>),
         dec |-> [d EXCEPT !.index = i4 + 1,
                           !.frame_count = fc,
                           !.keyframes = Append(@, Keyframe(FrameOf(fc, f), bi.v,
                                                    [t |-> "quat", q |-> q])),
                           !.deltas = Append(@, dt.v),
                           !.stored = Append(@, [c |-> c, scale |-> d.value_scale,
                                                 neg |-> ng.v])],
         reads |-> <<Rd("delta_time", "get_bits_unsigned", d.index,
                        d.delta_time_bit_count)>>
                   \o bi.reads
                   \o <<Rd("quat", "get_bits_signed", i3, w),
                        Rd("quat", "get_bits_signed", i3 + w, w),
                        Rd("quat", "get_bits_signed", i3 + 2 * w, w),
                        Rd("negate_x", "get_bit", i4, 1)>>]

-----------------------------------------------------------------------------
(* decompress_quaternion_1_dof_keyframes *)

\* lines 126-171: the header
Quaternion1DofHeader(s, start, zw) ==
    LET x  == get_float(s, start)
        y  == get_float(s, start + 32)
        z  == get_float(s, start + 64)
        kc == get_bits_unsigned(s, start + 96, 20, zw)
        dt == get_bits_unsigned(s, start + 116, 5, zw)
        bb == get_bits_unsigned(s, start + 121, 5, zw)
        bs == IF bb.v = 0 THEN [err |-> "", v |-> Zero]
              ELSE signed_bits_to_float_scaler(bb.v, zw)
        eb == get_bits_unsigned(s, start + 126, 5, zw)
        element_bit_count == IF eb.v = 0 THEN 32 ELSE eb.v
        raw == element_bit_count = 32
        es == IF raw THEN [err |-> "", v |-> One]
              ELSE unsigned_bits_to_float_scaler(element_bit_count)
        sf == IF raw THEN [err |-> "", v |-> <<>>] ELSE get_float(s, start + 131)
        of == IF raw THEN [err |-> "", v |-> <<>>] ELSE get_float(s, start + 163)
    IN  [err |-> FirstErr(<<x.err, y.err, z.err, kc.err, dt.err, bb.err, bs.err,
                            eb.err, es.err, sf.err, of.err>>),
         dec |-> [NoDec EXCEPT !.kind = "dof", !.start = start,
                               !.index = IF raw THEN start + 131 ELSE start + 195,
                               !.keyframe_count = kc.v,
                               !.delta_time_bit_count = dt.v,
                               !.bias_bit_count = bb.v,
                               !.bias_scale = bs.v,
                               !.value_bit_count = element_bit_count,
                               !.value_scale = es.v,
                               !.floats = <<x.v, y.v, z.v, sf.v, of.v>>],
         reads |-> <<Rd("x", "get_float", start, 32),
                     Rd("y", "get_float", start + 32, 32),
                     Rd("z", "get_float", start + 64, 32),
                     Rd("keyframe_count", "get_bits_unsigned", start + 96, 20),
                     Rd("delta_time_bit_count", "get_bits_unsigned", start + 116, 5),
                     Rd("bias_bit_count", "get_bits_unsigned", start + 121, 5),
                     Rd("element_bit_count", "get_bits_unsigned", start + 126, 5)>>
                   \o (IF raw THEN <<>>
                       ELSE <<Rd("scale_float", "get_float", start + 131, 32),
                              Rd("element_offset", "get_float", start + 163, 32)>>)]

\* line 177: the bias of a keyframe of the 1-DOF decoder
Quaternion1DofBias(s, d, at, zw) ==
    LET r == get_bits_signed(s, at, d.bias_bit_count, zw)
    IN  [err |-> r.err, v |-> Times(d.bias_scale, r.v),
         reads |-> <<Rd("bias", "get_bits_signed", at, d.bias_bit_count)>>]

\* lines 173-198: one iteration of the loop
Quaternion1DofKeyframe(s, d, f, zw) ==
    LET w  == d.value_bit_count
        dt == get_bits_unsigned(s, d.index, d.delta_time_bit_count, zw)
        i1 == d.index + d.delta_time_bit_count
        bi == Quaternion1DofBias(s, d, i1, zw)
        i2 == i1 + d.bias_bit_count
        el == IF w = 32 THEN get_float(s, i2) ELSE get_bits_unsigned(s, i2, w, zw)
        element == IF w = 32 THEN [t |-> "raw", bits |-> el.v]
                   ELSE [t |-> "affine", v |-> el.v,
                         scale |-> [s |-> d.value_scale, f |-> d.floats[4]],
                         offset |-> d.floats[5]]
        \* math.sin raises ValueError on an infinite argument
        sin == IF w = 32 /\ el.err = "" /\ IsInf(el.v) THEN "ValueError" ELSE ""
        fc == NextFrameCount(d.frame_count, dt.v)
    IN  [err |-> FirstErr(<<dt.err, bi.err, el.err, sin>>),
         dec |-> [d EXCEPT !.index = i2 + w,
                           !.frame_count = fc,
                           !.keyframes = Append(@, Keyframe(FrameOf(fc, f), bi.v,
                                                    [t |-> "axisangle",
                                                     axis |-> SubSeq(d.floats, 1, 3),
                                                     angle |-> element])),
                           !.deltas = Append(@, dt.v),
                           !.stored = Append(@, [c |-> <<el.v>>, scale |-> d.value_scale,
                                                 neg |-> FALSE])],
         reads |-> <<Rd("delta_time", "get_bits_unsigned", d.index,
                        d.delta_time_bit_count)>>
                   \o bi.reads
                   \o <<Rd("element", IF w = 32 THEN "get_float" ELSE "get_bits_unsigned",
                           i2, w)>>]

-----------------------------------------------------------------------------
(* decompress_vector_keyframes *)

\* lines 219-249: the header; the three (scale, offset) pairs are read
\* whatever the width
VectorHeader(s, start, zw) ==
    LET kc == get_bits_unsigned(s, start, 20, zw)
        dt == get_bits_unsigned(s, start + 20, 5, zw)
        bb == get_bits_unsigned(s, start + 25, 5, zw)
        bs == IF bb.v = 0 THEN [err |-> "", v |-> Zero]
              ELSE signed_bits_to_float_scaler(bb.v, zw)
        vb == get_bits_unsigned(s, start + 30, 5, zw)
        vs == IF vb.v = 32 THEN [err |-> "", v |-> One]
              ELSE unsigned_bits_to_float_scaler(vb.v)
        fl == [k \in 1..6 |-> get_float(s, start + 35 + 32 * (k - 1))]
    IN  [err |-> FirstErr(<<kc.err, dt.err, bb.err, bs.err, vb.err, vs.err>>
                          \o [k \in 1..6 |-> fl[k].err]),
         dec |-> [NoDec EXCEPT !.kind = "vec", !.start = start,
                               !.index = start + 35 + 192,
                               !.keyframe_count = kc.v,
                               !.delta_time_bit_count = dt.v,
                               !.bias_bit_count = bb.v,
                               !.bias_scale = bs.v,
                               !.value_bit_count = vb.v,
                               !.value_scale = vs.v,
                               !.floats = [k \in 1..6 |-> fl[k].v]],
         reads |-> <<Rd("keyframe_count", "get_bits_unsigned", start, 20),
                     Rd("delta_time_bit_count", "get_bits_unsigned", start + 20, 5),
                     Rd("bias_bit_count", "get_bits_unsigned", start + 25, 5),
                     Rd("vector_bit_count", "get_bits_unsigned", start + 30, 5)>>
                   \o [k \in 1..6 |-> Rd(IF k % 2 = 1 THEN "scale" ELSE "offset",
                                         "get_float", start + 35 + 32 * (k - 1), 32)]]

\* line 255: the bias of a keyframe of the vector decoder
VectorBias(s, d, at, zw) ==
    IF d.bias_bit_count > 0
    THEN LET r == get_bits_unsigned(s, at, d.bias_bit_count, zw)
         IN  [err |-> r.err, v |-> Times(d.bias_scale, r.v),
              reads |-> <<Rd("bias", "get_bits_unsigned", at, d.bias_bit_count)>>]
    ELSE [err |-> "", v |-> Zero, reads |-> <<>>]

\* a sign test on bit 30, the top bit of a 31-bit field
IsNegativeInt31(v) == (v \div 1073741824) % 2 = 1

\* line 270: ctypes.c_int32(value).value < 0, for an int value >= 0: bit 31
\* of value is set
IsNegativeInt32(v) == ((v \div 1073741824) \div 2) % 2 = 1

\* line 270: value & 1 | value >> 2
SignRemap(v) ==
    LET q == v \div 4
    IN  IF q % 2 = 1 THEN q ELSE q + (v % 2)

\* lines 264-272: one component of the vector; ctypes.c_int32 raises
\* TypeError when handed the float that get_float returned
VectorComponent(s, d, at, axis, zw) ==
    IF d.value_bit_count = 32
    THEN LET r == get_float(s, at)
         IN  [err |-> FirstErr(<<r.err, "TypeError">>), raw |-> r.v,
              v |-> [t |-> "raw", bits |-> r.v]]
    ELSE LET r == get_bits_unsigned(s, at, d.value_bit_count, zw)
             value == IF IsNegativeInt32(r.v) THEN SignRemap(r.v) ELSE r.v
         IN  [err |-> r.err, raw |-> r.v,
              v |-> [t |-> "affine", v |-> value,
                     scale |-> [s |-> d.value_scale, f |-> d.floats[2 * axis - 1]],
                     offset |-> d.floats[2 * axis]]]

\* lines 251-276: one iteration of the loop
VectorKeyframe(s, d, gt, f, zw) ==
    LET w  == d.value_bit_count
        dt == get_bits_unsigned(s, d.index, d.delta_time_bit_count, zw)
        i1 == d.index + d.delta_time_bit_count
        bi == VectorBias(s, d, i1, zw)
        i2 == i1 + d.bias_bit_count
        i3 == IF gt \in NewerTypes THEN i2 + 1 ELSE i2
        c  == [k \in 1..3 |-> VectorComponent(s, d, i3 + (k - 1) * w, k, zw)]
        fc == NextFrameCount(d.frame_count, dt.v)
    IN  [err |-> FirstErr(<<dt.err, bi.err, c[1].err, c[2].err, c[3].err>>),
         dec |-> [d EXCEPT !.index = i3 + 3 * w,
                           !.frame_count = fc,
                           !.keyframes = Append(@, Keyframe(FrameOf(fc, f), bi.v,
                                                    [t |-> "vector",
                                                     v |-> [k \in 1..3 |-> c[k].v]])),
                           !.deltas = Append(@, dt.v),
                           !.stored = Append(@, [c |-> [k \in 1..3 |-> c[k].raw],
                                                 scale |-> d.value_scale,
                                                 neg |-> FALSE])],
         reads |-> <<Rd("delta_time", "get_bits_unsigned", d.index,
                        d.delta_time_bit_count)>>
                   \o bi.reads
                   \o [k \in 1..3 |-> Rd("vector",
                                         IF w = 32 THEN "get_float"
                                         ELSE "get_bits_unsigned",
                                         i3 + (k - 1) * w, w)]]

-----------------------------------------------------------------------------
(* Input files: the stream-data arenas the model reads.  A channel block   *)
(* is written field by field in the layout its decoder reads, from a       *)
(* description [kc, dtw, bw, vw, kfs] of the header and the keyframes.     *)

\* the w low bits of v, most significant first (two's complement)
RECURSIVE Bits(_, _)
Bits(v, w) == IF w = 0 THEN <<>> ELSE Bits(v \div 2, w - 1) \o <<v % 2>>

RECURSIVE Flatten(_)
Flatten(ss) == IF ss = <<>> THEN <<>> ELSE Head(ss) \o Flatten(Tail(ss))

FloatZero == Bits(0, 32)
FloatOne == Bits(1065353216, 32)
FloatTwo == Bits(1073741824, 32)
FloatInf == Bits(2139095040, 32)

FloatPat(k) == IF k = 0 THEN FloatZero ELSE IF k = 3 THEN FloatInf ELSE FloatOne

\* the words of the arena: zero bits up to the next multiple of 32
PadWords(s) == s \o [k \in 1..((32 - (Len(s) % 32)) % 32) |-> 0]

HeaderBits(ds) ==
    Bits(ds.kc, 20) \o Bits(ds.dtw, 5) \o Bits(ds.bw, 5) \o Bits(ds.vw, 5)

QuatBlock(ds, gt) ==
    HeaderBits(ds)
    \o Flatten([k \in 1..Len(ds.kfs) |->
          Bits(ds.kfs[k].d, ds.dtw) \o Bits(ds.kfs[k].b, ds.bw)
          \o (IF gt \in NewerTypes THEN <<1>> ELSE <<>>)
          \o Bits(ds.kfs[k].c[1], ds.vw) \o Bits(ds.kfs[k].c[2], ds.vw)
          \o Bits(ds.kfs[k].c[3], ds.vw) \o <<ds.kfs[k].neg>>])

DofBlock(ds) ==
    FloatZero \o FloatZero \o FloatOne
    \o HeaderBits(ds)
    \o (IF ds.vw = 0 THEN <<>> ELSE FloatTwo \o FloatOne)
    \o Flatten([k \in 1..Len(ds.kfs) |->
          Bits(ds.kfs[k].d, ds.dtw) \o Bits(ds.kfs[k].b, ds.bw)
          \o (IF ds.vw = 0 THEN FloatPat(ds.kfs[k].c[1])
              ELSE Bits(ds.kfs[k].c[1], ds.vw))])

VecBlock(ds, gt) ==
    HeaderBits(ds)
    \o FloatTwo \o FloatOne \o FloatOne \o FloatZero \o FloatOne \o FloatTwo
    \o Flatten([k \in 1..Len(ds.kfs) |->
          Bits(ds.kfs[k].d, ds.dtw) \o Bits(ds.kfs[k].b, ds.bw)
          \o (IF gt \in NewerTypes THEN <<1>> ELSE <<>>)
          \o Bits(ds.kfs[k].c[1], ds.vw) \o Bits(ds.kfs[k].c[2], ds.vw)
          \o Bits(ds.kfs[k].c[3], ds.vw)])

Block(kind, ds, gt) ==
    CASE kind = "quat" -> QuatBlock(ds, gt)
      [] kind = "dof"  -> DofBlock(ds)
      [] kind = "vec"  -> VecBlock(ds, gt)

\* the arena holding one block at bit offset ChanOff; a rotation block of
\* a newer game type is preceded by its 1-DOF flag bit
Arena(kind, ds, gt, flagged) ==
    PadWords([k \in 1..ChanOff |-> 0]
             \o (IF flagged THEN <<IF kind = "dof" THEN 1 ELSE 0>> ELSE <<>>)
             \o Block(kind, ds, gt))

Kf(d, b, c, neg) == [d |-> d, b |-> b, c |-> c, neg |-> neg]

DeltaChoices == {0, 3}

CompChoices == {<<0, 0, 0>>, <<3, 0, 0>>, <<0, 3, 0>>, <<0, 0, 3>>, <<5, 7, 2>>}

\* keyframe counts 0..MaxKeyframes with every choice of deltas
TimingDescs ==
    UNION {{[kc |-> k, dtw |-> 4, bw |-> 0, vw |-> 10,
             kfs |-> [i \in 1..k |-> Kf(ds[i], 0, <<1, 2, 3>>, 0)]]
            : ds \in [1..k -> DeltaChoices]} : k \in 0..MaxKeyframes}

\* one keyframe with every bias width and bias field
BiasDescs ==
    {[kc |-> 1, dtw |-> dw, bw |-> b, vw |-> 3,
      kfs |-> <<Kf(0, bb, <<1, 2, 3>>, 1)>>]
     : dw \in {0, 4}, b \in {0, 1, 2, 3}, bb \in {1, 3, 6}}

\* one keyframe with every value width and value fields
ValueDescs ==
    {[kc |-> 1, dtw |-> 2, bw |-> 0, vw |-> v, kfs |-> <<Kf(1, 0, c, n)>>]
     : v \in {0, 1, 3}, c \in CompChoices, n \in {0, 1}}

\* a header that declares more keyframes than the arena holds
TruncDescs == {[kc |-> MaxKeyframes, dtw |-> 4, bw |-> 0, vw |-> 10, kfs |-> <<>>]}

Descs == TimingDescs \cup BiasDescs \cup ValueDescs \cup TruncDescs

\* the fields of a wide vector component: all ones, the top bit alone, 1
WideComps == {<<2147483647, 1073741824, 1>>, <<1073741824, 1, 2147483647>>}

\* one vector keyframe with wide components, up to the widest quantized
\* width a 5-bit field can declare
WideDescs ==
    {[kc |-> 1, dtw |-> 0, bw |-> 0, vw |-> v, kfs |-> <<Kf(0, 0, c, 0)>>]
     : v \in {16, 30, 31}, c \in WideComps}

\* the blocks a decoder is called on
DescsOf(kind) == IF kind = "vec" THEN Descs \cup WideDescs ELSE Descs

FpsChoices == {60, 30}

-----------------------------------------------------------------------------
(* read_file: the exception boundary *)

\* an except clause that lets ZeroDivisionError through
CaughtKindsNoZeroDivision == {"OSError", "IndexError", "ValueError", "struct.error"}

\* line 521: the exception kinds read_file catches
CaughtKinds == {"OSError", "IndexError", "ValueError", "ZeroDivisionError", "struct.error"}

\* lines 521-522: what the caller of read_file sees when kind is raised
ReadFileExcept(kind) == IF kind \in CaughtKinds THEN "FileReadError" ELSE kind

NoAnimation == [frame_count |-> -1, bones |-> <<>>]

NoBone ==
    [indices |-> <<0, 0, 0>>, rotation_keyframes |-> <<>>,
     scale_keyframes |-> <<>>, location_keyframes |-> <<>>]

\* an exception leaves the running call; inside read_file it meets line 521
Raise(kind) ==
    /\ pc' = "done"
    /\ outcome' = IF chan = "call" THEN kind ELSE ReadFileExcept(kind)
    /\ animation' = animation
    /\ raised' = kind

-----------------------------------------------------------------------------
(* The file: reads move pos; the length of the file is fixed the first     *)
(* time a read meets the end of the file.                                  *)

Max(a, b) == IF a > b THEN a ELSE b

\* the file holds n more bytes at position p
Avail(p, n) == flen = -1 \/ p + n <= flen

\* the lengths the file can have when it does not hold n more bytes at p
ShortLens(p, n) ==
    IF flen # -1 THEN (IF p + n > flen THEN {flen} ELSE {})
    ELSE maxRead..(p + n - 1)

\* a run of reads of n bytes in all from p, whose last read is checked:
\* either the bytes are there, or the file ends first
ReadsOk(p, n) ==
    /\ Avail(p, n)
    /\ flen' = flen
    /\ maxRead' = Max(maxRead, p + n)

ReadsShort(p, n) ==
    /\ \E l \in ShortLens(p, n) : flen' = l
    /\ maxRead' = maxRead

NameLens == {1, 3}

FrameCounts == {8}

StaticCounts == {0, 5}

ExtraBytes == {1, 2}

SoundCounts == {0, 1}

-----------------------------------------------------------------------------
(* read_animation *)

\* lines 398-407: the bytes skipped before the name
HeaderPrefix(gt) ==
    CASE gt = "THEURBZ" -> 20
      [] gt \in {"THESIMS2"} \cup NewerTypes -> 16
      [] OTHER -> 0

\* lines 411-418: the bytes skipped after the name
NamePadding(gt) == IF gt \in {"THESIMS2"} \cup NewerTypes THEN 4 ELSE 0

\* lines 428-442: bone_size; 0 stands for the case that raises
BoneSize(gt) ==
    CASE gt = "THESIMS" -> 12
      [] gt = "THESIMSBUSTINOUT" -> 28
      [] gt \in {"THEURBZ", "THESIMS2"} \cup NewerTypes -> 32
      [] OTHER -> 0

\* a read_bone that skips 20 bytes for THESIMSBUSTINOUT as well
BonePaddingAlways20(gt) ==
    CASE gt \in {"THESIMSBUSTINOUT", "THEURBZ", "THESIMS2"} \cup NewerTypes -> 20
      [] OTHER -> 0

\* lines 303-313: the bytes read_bone skips after the three indices
BonePadding(gt) ==
    CASE gt = "THESIMSBUSTINOUT" -> 16
      [] gt \in {"THEURBZ", "THESIMS2"} \cup NewerTypes -> 20
      [] OTHER -> 0

\* line 513: file_path.open
ReadFileOpen ==
    /\ pc = "open"
    /\ \/ pc' = "header" /\ UNCHANGED <<outcome, animation, raised>>
       \/ Raise("OSError")
    /\ UNCHANGED <<game_type, stream, static_count, fps, frame_count, bone_count,
                   bone_position, end_position, pos, flen, maxRead, bones, cur,
                   chan, dec, reads, padStart>>

\* lines 398-444: the header up to the seek past the bone table
ReadHeader ==
    /\ pc = "header"
    /\ \E nl \in NameLens, fc \in FrameCounts, bc \in 0..MaxBones :
         LET n == HeaderPrefix(game_type) + (nl + 1) + NamePadding(game_type)
                  + 4 + 12 + 12 + 4
         IN  \/ /\ ReadsOk(pos, n)
                /\ game_type \in GameTypes
                /\ frame_count' = fc
                /\ bone_count' = bc
                /\ bone_position' = pos + n
                /\ pos' = (pos + n) + (bc * BoneSize(game_type)) + 4
                /\ pc' = "tables"
                /\ UNCHANGED <<outcome, animation, raised>>
             \/ /\ ReadsOk(pos, n)
                /\ game_type \notin GameTypes
                /\ Raise("FileReadError")
                /\ pos' = pos + n
                /\ UNCHANGED <<frame_count, bone_count, bone_position>>
             \/ /\ ReadsShort(pos, n)
                /\ Raise("struct.error")
                /\ UNCHANGED <<pos, frame_count, bone_count, bone_position>>
    /\ UNCHANGED <<game_type, stream, static_count, fps, end_position, bones, cur,
                   chan, dec, reads, padStart>>

FileDescs ==
    {[kc |-> 0, dtw |-> 4, bw |-> 2, vw |-> 3, kfs |-> <<>>],
     [kc |-> 1, dtw |-> 4, bw |-> 2, vw |-> 3, kfs |-> <<Kf(3, 3, <<3, 0, 0>>, 1)>>]}

FileKinds(gt) == IF gt \in NewerTypes THEN {"quat", "dof", "vec"} ELSE {"quat", "vec"}

\* the arenas a file of the model holds: none, or one channel block
FileArenas(gt) ==
    {<<>>} \cup {Arena(k, ds, gt, gt \in NewerTypes /\ k # "vec")
                 : k \in FileKinds(gt), ds \in FileDescs}

\* lines 446-473: the static table, the stream data and the playback
\* parameters, then the seek back to the bone table
ReadTables ==
    /\ pc = "tables"
    /\ \E sc \in StaticCounts, st \in FileArenas(game_type), f \in FpsChoices :
         LET n == (IF game_type \in NewerTypes THEN 4 ELSE 0)
                  + 4 + (4 * sc) + 4 + (4 * (Len(st) \div 32)) + 31
         IN  \/ /\ ReadsOk(pos, n)
                /\ static_count' = sc
                /\ stream' = st
                /\ fps' = f
                /\ end_position' = pos + n
                /\ pos' = bone_position
                /\ pc' = IF bone_count > 0 THEN "bone" ELSE "sounds"
                /\ UNCHANGED <<outcome, animation, raised>>
             \/ /\ ReadsShort(pos, n)
                /\ Raise("struct.error")
                /\ UNCHANGED <<static_count, stream, fps, end_position, pos>>
    /\ UNCHANGED <<game_type, frame_count, bone_count, bone_position, bones, cur,
                   chan, dec, reads, padStart>>

-----------------------------------------------------------------------------
(* read_bone *)

IndexTriples ==
    {<<0, 0, 0>>, <<1, 1, 1>>, <<0, 3, 4>>,
     <<-ChanOff, 0, 0>>, <<0, -ChanOff, -ChanOff>>}

\* static_data[i]
St(i) == [t |-> "static", i |-> i]

\* lines 319-333: the constant rotation; static_data[rotation_index + 3]
\* raises IndexError past the table
StaticQuaternion(idx, count) ==
    [err |-> IF idx + 3 >= count THEN "IndexError" ELSE "",
     v |-> <<Keyframe(0, One, [t |-> "quat",
                               q |-> <<St(idx + 3), St(idx), St(idx + 1), St(idx + 2)>>])>>]

\* lines 349-356 and 362-369: the constant vector; the slice stops at the
\* end of the table and mathutils.Vector raises ValueError below two items
StaticVector(idx, count) ==
    LET hi == IF idx + 3 <= count THEN idx + 2 ELSE count - 1
    IN  [err |-> IF hi - idx + 1 < 2 THEN "ValueError" ELSE "",
         v |-> <<Keyframe(0, One, [t |-> "vector", v |-> [k \in 1..(hi - idx + 1) |-> St(idx + k - 1)]])>>]

\* line 347
DefaultRotation == <<Keyframe(0, One, [t |-> "quat", q |-> <<Lin(1, 1), Lin(0, 1), Lin(0, 1), Lin(0, 1)>>])>>

\* line 360
DefaultScale == <<Keyframe(0, One, [t |-> "vector", v |-> <<Lin(1, 1), Lin(1, 1), Lin(1, 1)>>])>>

\* line 373
DefaultLocation == <<Keyframe(0, One, [t |-> "vector", v |-> <<Lin(0, 1), Lin(0, 1), Lin(0, 1)>>])>>

\* a dispatch that reads the flag and calls the decoder with the index as
\* it was
RotationDispatchSameIndex(s, rotation_index, gt) ==
    IF gt \in NewerTypes
    THEN LET is_1_dof == get_bit(s, -rotation_index)
         IN  [err |-> is_1_dof.err,
              kind |-> IF is_1_dof.v THEN "dof" ELSE "quat",
              index |-> rotation_index,
              reads |-> <<Rd("is_1_dof", "get_bit", -rotation_index, 1)>>]
    ELSE [err |-> "", kind |-> "quat", index |-> rotation_index, reads |-> <<>>]

\* a dispatch that takes the flag the other way round
RotationDispatchInverted(s, rotation_index, gt) ==
    IF gt \in NewerTypes
    THEN LET is_1_dof == get_bit(s, -rotation_index)
         IN  [err |-> is_1_dof.err,
              kind |-> IF is_1_dof.v THEN "quat" ELSE "dof",
              index |-> rotation_index - 1,
              reads |-> <<Rd("is_1_dof", "get_bit", -rotation_index, 1)>>]
    ELSE [err |-> "", kind |-> "quat", index |-> rotation_index, reads |-> <<>>]

\* lines 334-344: the decoder a negative rotation index goes to, and the
\* index it is called with
RotationDispatch(s, rotation_index, gt) ==
    IF gt \in NewerTypes
    THEN LET is_1_dof == get_bit(s, -rotation_index)
         IN  [err |-> is_1_dof.err,
              kind |-> IF is_1_dof.v THEN "dof" ELSE "quat",
              index |-> rotation_index - 1,
              reads |-> <<Rd("is_1_dof", "get_bit", -rotation_index, 1)>>]
    ELSE [err |-> "", kind |-> "quat", index |-> rotation_index, reads |-> <<>>]

\* lines 32, 126, 219: index = -index
DecoderStart(index) == -index

HeaderPc(kind) ==
    CASE kind = "quat" -> "quat_header"
      [] kind = "dof"  -> "dof_header"
      [] kind = "vec"  -> "vec_header"

\* a decoder is called with index for channel c
Call(kind, index, c, rs) ==
    /\ dec' = [NoDec EXCEPT !.kind = kind, !.start = DecoderStart(index)]
    /\ chan' = c
    /\ reads' = rs
    /\ pc' = HeaderPc(kind)

\* line 375 and line 475: the bone joins the list
FinishBone(b) ==
    /\ bones' = Append(bones, b)
    /\ cur' = b
    /\ pc' = IF Len(bones) + 1 < bone_count THEN "bone" ELSE "sounds"

\* the keyframes of channel c are in hand: read_bone goes on
Resolved(c, kfs) ==
    CASE c = "rotation" ->
            /\ cur' = [cur EXCEPT !.rotation_keyframes = kfs]
            /\ pc' = "scale"
            /\ UNCHANGED <<bones, outcome, animation, raised>>
      [] c = "scale" ->
            /\ cur' = [cur EXCEPT !.scale_keyframes = kfs]
            /\ pc' = "location"
            /\ UNCHANGED <<bones, outcome, animation, raised>>
      [] c = "location" ->
            /\ FinishBone([cur EXCEPT !.location_keyframes = kfs])
            /\ UNCHANGED <<outcome, animation, raised>>
      [] c = "call" ->
            /\ pc' = "done"
            /\ outcome' = "Keyframes"
            /\ UNCHANGED <<bones, cur, animation, raised>>

\* lines 299-317: the three indices and the padding of the record
ReadBoneIndices ==
    /\ pc = "bone"
    /\ \E ix \in IndexTriples :
         LET pad == BonePadding(game_type)
             got == IF Avail(pos + 12, pad) THEN pad ELSE Max(0, flen - (pos + 12))
         IN  IF Avail(pos, 12)
             THEN /\ cur' = [NoBone EXCEPT !.indices = ix]
                  /\ pos' = pos + 12 + got
                  /\ maxRead' = Max(maxRead, pos + 12 + got)
                  /\ pc' = "rotation"
                  /\ UNCHANGED <<outcome, animation, raised>>
             ELSE /\ Raise("struct.error")
                  /\ UNCHANGED <<cur, pos, maxRead>>
    /\ UNCHANGED <<game_type, stream, static_count, fps, frame_count, bone_count,
                   bone_position, end_position, flen, bones, chan, dec, reads,
                   padStart>>

\* lines 319-347
ResolveRotation ==
    /\ pc = "rotation"
    /\ LET rotation_index == cur.indices[1]
           st == StaticQuaternion(rotation_index, static_count)
           dp == RotationDispatch(stream, rotation_index, game_type)
       IN  CASE rotation_index > 0 ->
                  IF st.err # ""
                  THEN Raise(st.err) /\ UNCHANGED <<bones, cur, chan, dec, reads>>
                  ELSE Resolved("rotation", st.v) /\ UNCHANGED <<chan, dec, reads>>
             [] rotation_index < 0 ->
                  IF dp.err # ""
                  THEN Raise(dp.err) /\ UNCHANGED <<bones, cur, chan, dec, reads>>
                  ELSE /\ Call(dp.kind, dp.index, "rotation", dp.reads)
                       /\ UNCHANGED <<bones, cur, outcome, animation, raised>>
             [] OTHER ->
                  Resolved("rotation", DefaultRotation) /\ UNCHANGED <<chan, dec, reads>>
    /\ UNCHANGED <<game_type, stream, static_count, fps, frame_count, bone_count,
                   bone_position, end_position, pos, flen, maxRead, padStart>>

\* lines 349-360
ResolveScale ==
    /\ pc = "scale"
    /\ LET scale_index == cur.indices[2]
           st == StaticVector(scale_index, static_count)
       IN  CASE scale_index > 0 ->
                  IF st.err # ""
                  THEN Raise(st.err) /\ UNCHANGED <<bones, cur, chan, dec, reads>>
                  ELSE Resolved("scale", st.v) /\ UNCHANGED <<chan, dec, reads>>
             [] scale_index < 0 ->
                  /\ Call("vec", scale_index, "scale", <<>>)
                  /\ UNCHANGED <<bones, cur, outcome, animation, raised>>
             [] OTHER ->
                  Resolved("scale", DefaultScale) /\ UNCHANGED <<chan, dec, reads>>
    /\ UNCHANGED <<game_type, stream, static_count, fps, frame_count, bone_count,
                   bone_position, end_position, pos, flen, maxRead, padStart>>

\* lines 362-375
ResolveLocation ==
    /\ pc = "location"
    /\ LET location_index == cur.indices[3]
           st == StaticVector(location_index, static_count)
       IN  CASE location_index > 0 ->
                  IF st.err # ""
                  THEN Raise(st.err) /\ UNCHANGED <<bones, cur, chan, dec, reads>>
                  ELSE Resolved("location", st.v) /\ UNCHANGED <<chan, dec, reads>>
             [] location_index < 0 ->
                  /\ Call("vec", location_index, "location", <<>>)
                  /\ UNCHANGED <<bones, cur, outcome, animation, raised>>
             [] OTHER ->
                  Resolved("location", DefaultLocation) /\ UNCHANGED <<chan, dec, reads>>
    /\ UNCHANGED <<game_type, stream, static_count, fps, frame_count, bone_count,
                   bone_position, end_position, pos, flen, maxRead, padStart>>

-----------------------------------------------------------------------------
(* The decoders as steps: the header, then one keyframe per step.  The     *)
(* step that ends the loop returns the keyframes to read_bone.             *)

\* r is what a header or a loop iteration gave
DecoderStep(r, loop) ==
    IF r.err # ""
    THEN /\ Raise(r.err)
         /\ UNCHANGED <<bones, cur, dec, reads>>
    ELSE /\ dec' = r.dec
         /\ reads' = reads \o r.reads
         /\ IF Len(r.dec.keyframes) = r.dec.keyframe_count
            THEN Resolved(chan, r.dec.keyframes)
            ELSE /\ pc' = loop
                 /\ UNCHANGED <<bones, cur, outcome, animation, raised>>

DecoderFrame ==
    UNCHANGED <<game_type, stream, static_count, fps, frame_count, bone_count,
                bone_position, end_position, pos, flen, maxRead, chan, padStart>>

\* lines 32-53
DecompressQuaternionHeader ==
    /\ pc = "quat_header"
    /\ \E zw \in ZeroWidthOutcomes :
         DecoderStep(QuaternionHeader(stream, dec.start, zw), "quat_loop")
    /\ DecoderFrame

\* lines 55-117
DecompressQuaternionKeyframe ==
    /\ pc = "quat_loop"
    /\ \E zw \in ZeroWidthOutcomes :
         DecoderStep(QuaternionKeyframe(stream, dec, game_type, fps, zw), "quat_loop")
    /\ DecoderFrame

\* lines 126-171
DecompressQuaternion1DofHeader ==
    /\ pc = "dof_header"
    /\ \E zw \in ZeroWidthOutcomes :
         DecoderStep(Quaternion1DofHeader(stream, dec.start, zw), "dof_loop")
    /\ DecoderFrame

\* lines 173-200
DecompressQuaternion1DofKeyframe ==
    /\ pc = "dof_loop"
    /\ \E zw \in ZeroWidthOutcomes :
         DecoderStep(Quaternion1DofKeyframe(stream, dec, fps, zw), "dof_loop")
    /\ DecoderFrame

\* lines 219-249
DecompressVectorHeader ==
    /\ pc = "vec_header"
    /\ \E zw \in ZeroWidthOutcomes :
         DecoderStep(VectorHeader(stream, dec.start, zw), "vec_loop")
    /\ DecoderFrame

\* lines 251-278
DecompressVectorKeyframe ==
    /\ pc = "vec_loop"
    /\ \E zw \in ZeroWidthOutcomes :
         DecoderStep(VectorKeyframe(stream, dec, game_type, fps, zw), "vec_loop")
    /\ DecoderFrame

-----------------------------------------------------------------------------
(* read_animation, after the bones; read_file's last read *)

SoundTypes == {"THESIMS2", "THESIMS2PETS", "THESIMS2CASTAWAY"}

\* lines 477-484: the seek to end_position and the sound-event table
ReadSounds ==
    /\ pc = "sounds"
    /\ IF game_type \in SoundTypes
       THEN \E sc \in SoundCounts, sl \in NameLens :
              LET n == 4 + (sc * (8 + sl + 1))
              IN  \/ /\ ReadsOk(end_position, n)
                     /\ pos' = end_position + n
                     /\ pc' = "padding"
                     /\ UNCHANGED <<outcome, animation, raised>>
                  \/ /\ ReadsShort(end_position, n)
                     /\ pos' = end_position
                     /\ Raise("struct.error")
       ELSE /\ pos' = end_position
            /\ pc' = "padding"
            /\ UNCHANGED <<flen, maxRead, outcome, animation, raised>>
    /\ UNCHANGED <<game_type, stream, static_count, fps, frame_count, bone_count,
                   bone_position, end_position, bones, cur, chan, dec, reads,
                   padStart>>

\* lines 486-490: the trailing field of THESIMS3, then the final padding
ReadPadding ==
    /\ pc = "padding"
    /\ LET tr == IF game_type = "THESIMS3" THEN 4 ELSE 0
       IN  \/ /\ ReadsOk(pos, tr + 4)
              /\ padStart' = pos + tr
              /\ pos' = pos + tr + 4
              /\ pc' = "eof"
              /\ UNCHANGED <<outcome, animation, raised>>
           \/ /\ \E l \in ShortLens(pos, tr + 4) :
                    /\ flen' = l
                    /\ padStart' = IF l < pos + tr THEN Max(pos, l) ELSE pos + tr
                    /\ pos' = Max(pos, l)
              /\ maxRead' = maxRead
              /\ Raise("FileReadError")
    /\ UNCHANGED <<game_type, stream, static_count, fps, frame_count, bone_count,
                   bone_position, end_position, bones, cur, chan, dec, reads>>

\* lines 492-507: the Animation read_animation builds
BuildAnimation ==
    [frame_count |-> IF fps = 60 THEN frame_count ELSE frame_count * 2,
     bones |-> bones]

\* a read_file that returns the Animation whatever follows the padding
ReadFileEndAnyTail ==
    /\ pc = "eof"
    /\ \E l \in (IF flen = -1 THEN {pos + k : k \in {0} \cup ExtraBytes} ELSE {flen}) :
          flen' = l
    /\ pos' = pos
    /\ pc' = "done"
    /\ outcome' = "Animation"
    /\ animation' = BuildAnimation
    /\ raised' = raised
    /\ UNCHANGED <<game_type, stream, static_count, fps, frame_count, bone_count,
                   bone_position, end_position, maxRead, bones, cur, chan, dec,
                   reads, padStart>>

\* lines 514-519: a byte after the padding raises, else the Animation is
\* returned
ReadFileEnd ==
    /\ pc = "eof"
    /\ \/ /\ flen \in {-1, pos}
          /\ flen' = pos
          /\ pos' = pos
          /\ pc' = "done"
          /\ outcome' = "Animation"
          /\ animation' = BuildAnimation
          /\ raised' = raised
       \/ /\ \E l \in (IF flen = -1 THEN {pos + k : k \in ExtraBytes}
                       ELSE IF flen > pos THEN {flen} ELSE {}) : flen' = l
          /\ pos' = pos + 1
          /\ Raise("FileReadError")
    /\ UNCHANGED <<game_type, stream, static_count, fps, frame_count, bone_count,
                   bone_position, end_position, maxRead, bones, cur, chan, dec,
                   reads, padStart>>

-----------------------------------------------------------------------------
(* Specifications *)

\* read_file is called with a game type
Init ==
    /\ game_type \in GameTypes \cup {OtherType}
    /\ stream = <<>>
    /\ static_count = 0
    /\ fps = 0
    /\ frame_count = 0
    /\ bone_count = 0
    /\ bone_position = 0
    /\ end_position = 0
    /\ pos = 0
    /\ flen = -1
    /\ maxRead = 0
    /\ bones = <<>>
    /\ cur = NoBone
    /\ chan = "none"
    /\ dec = NoDec
    /\ reads = <<>>
    /\ padStart = -1
    /\ pc = "open"
    /\ outcome = "none"
    /\ animation = NoAnimation
    /\ raised = ""

DecoderNext ==
    \/ DecompressQuaternionHeader
    \/ DecompressQuaternionKeyframe
    \/ DecompressQuaternion1DofHeader
    \/ DecompressQuaternion1DofKeyframe
    \/ DecompressVectorHeader
    \/ DecompressVectorKeyframe

Next ==
    \/ ReadFileOpen
    \/ ReadHeader
    \/ ReadTables
    \/ ReadBoneIndices
    \/ ResolveRotation
    \/ ResolveScale
    \/ ResolveLocation
    \/ DecoderNext
    \/ ReadSounds
    \/ ReadPadding
    \/ ReadFileEnd

Spec == Init /\ [][Next]_vars

\* the decoders a game type calls
DecoderKinds(gt) == IF gt \in NewerTypes THEN {"quat", "dof", "vec"} ELSE {"quat", "vec"}

\* one call of a channel decoder on an arena holding one block
InitDec ==
    /\ game_type \in GameTypes
    /\ fps \in FpsChoices
    /\ dec \in {[NoDec EXCEPT !.kind = k, !.start = ChanOff] : k \in DecoderKinds(game_type)}
    /\ stream \in {Arena(dec.kind, ds, game_type, FALSE) : ds \in DescsOf(dec.kind)}
    /\ static_count = 0
    /\ frame_count = 0
    /\ bone_count = 0
    /\ bone_position = 0
    /\ end_position = 0
    /\ pos = 0
    /\ flen = -1
    /\ maxRead = 0
    /\ bones = <<>>
    /\ cur = NoBone
    /\ chan = "call"
    /\ reads = <<>>
    /\ padStart = -1
    /\ pc = HeaderPc(dec.kind)
    /\ outcome = "none"
    /\ animation = NoAnimation
    /\ raised = ""

SpecDec == InitDec /\ [][DecoderNext]_vars

-----------------------------------------------------------------------------
(* Properties of the channel decoders, checked under SpecDec *)

DecoderKindsAll == {"quat", "dof", "vec"}

ReadsOf(f) == SelectSeq(reads, LAMBDA r : r.f = f)

\* the unsigned value of the w bits at bit offset at
FieldUnsigned(at, w) == IF w = 0 THEN 0 ELSE BitsValue(stream, at, w)

\* the two's-complement value of the w bits at bit offset at
FieldSigned(at, w) ==
    IF w = 0 THEN 0
    ELSE IF stream[at + 1] = 1 THEN FieldUnsigned(at, w) - 2^w
    ELSE FieldUnsigned(at, w)

RECURSIVE SumDeltas(_, _)
SumDeltas(ds, k) == IF k = 0 THEN 0 ELSE SumDeltas(ds, k - 1) + (ds[k] + 1)

Frames == [k \in 1..Len(dec.keyframes) |-> dec.keyframes[k].frame]

\* C4: in each of the three decoders the frame of keyframe k is
\* m * (sum over i = 0..k of (delta_time_i + 1)) - 1, with m = 1 when fps is
\* 60 and 2 otherwise, where delta_time_i is the field read from the stream;
\* the frames are strictly increasing, and the deltas {0, 3} give the frames
\* {0, 4} at 60 fps and {1, 9} at any other fps.
C4_FrameNumbers ==
    dec.kind \in DecoderKindsAll =>
        LET m  == IF fps = 60 THEN 1 ELSE 2
            dr == ReadsOf("delta_time")
        IN  /\ Len(dr) = Len(dec.keyframes)
            /\ \A k \in 1..Len(dec.keyframes) :
                 /\ dec.deltas[k] = FieldUnsigned(dr[k].at, dr[k].w)
                 /\ Frames[k] = (m * SumDeltas(dec.deltas, k)) - 1
            /\ \A k \in 1..(Len(dec.keyframes) - 1) : Frames[k] < Frames[k + 1]
            /\ dec.deltas = <<0, 3>> =>
                 Frames = IF fps = 60 THEN <<0, 4>> ELSE <<1, 9>>

\* C4 witness: the 1-DOF decoder returned two keyframes with deltas {0, 3}
\* at a frame rate other than 60
C4_Witness ==
    /\ pc = "done"
    /\ outcome = "Keyframes"
    /\ dec.kind = "dof"
    /\ fps # 60
    /\ dec.deltas = <<0, 3>>
    /\ Frames = <<1, 9>>

\* the value a 5-bit header field holds for the width w
WidthField(w) == w % 32

VectorWidthBelow32 == dec.kind = "vec" => dec.value_bit_count < 32

\* C7: in decompress_quaternion_keyframes both layouts compute the implicit
\* component from 1 - (s0^2 + s1^2 + s2^2) over the three stored values,
\* clamp it at 0, negate it when the negate bit is set, and pass
\* (implicit, s0, s1, s2) to the normalization.
C7_SameReconstruction ==
    dec.kind = "quat" =>
        \A k \in 1..Len(dec.keyframes) :
            LET sc == dec.stored[k].scale
                s  == [i \in 1..3 |-> sc.n * dec.stored[k].c[i]]
                r  == (sc.d * sc.d) - ((s[1] * s[1]) + (s[2] * s[2]) + (s[3] * s[3]))
                implicit == IF r > 0
                            THEN [t |-> "sqrt", n |-> r, d |-> sc.d * sc.d,
                                  neg |-> dec.stored[k].neg]
                            ELSE Lin(0, 1)
            IN  dec.keyframes[k].value.q =
                    <<implicit, Lin(s[1], sc.d), Lin(s[2], sc.d), Lin(s[3], sc.d)>>

\* C8: in all three decoders, with bias width 0 no bias field is read and
\* the bias is 0; with bias width > 0 the field is read as a signed
\* two's-complement integer of that width and multiplied by
\* signed_bits_to_float_scaler(bias width).
C8_BiasHandling ==
    dec.kind \in DecoderKindsAll =>
        LET br == ReadsOf("bias")
            bw == dec.bias_bit_count
        IN  IF bw = 0
            THEN /\ \A j \in 1..Len(br) : br[j].w = 0
                 /\ \A k \in 1..Len(dec.keyframes) : dec.keyframes[k].bias = [n |-> 0, d |-> 1]
            ELSE /\ Len(br) = Len(dec.keyframes)
                 /\ \A k \in 1..Len(dec.keyframes) :
                      /\ br[k].w = bw
                      /\ dec.keyframes[k].bias =
                             [n |-> FieldSigned(br[k].at, bw), d |-> 2^(bw - 1) - 1]

\* the largest value of a field of w bits, 2^w - 1
FieldMax(w) == 2 * (2^(w - 1) - 1) + 1

\* the 32 bits of the k-th float after the header of the vector decoder
VectorHeaderFloat(k) ==
    SubSeq(stream, dec.start + 35 + 32 * (k - 1) + 1, dec.start + 35 + 32 * k)

\* C11: in decompress_vector_keyframes, for every quantized width w in
\* 1..31 and every field value v read with get_bits_unsigned, 0 <= v < 2^w
\* and v taken as a 32-bit two's-complement integer is not negative (its
\* bit 31 is clear), so the remap (v & 1) | (v >> 2) is not applied and the
\* component is v * scale[axis] + offset[axis].
C11_NoSignRemap ==
    (dec.kind = "vec" /\ dec.value_bit_count \in 1..31) =>
        LET w  == dec.value_bit_count
            vr == ReadsOf("vector")
        IN  /\ Len(vr) = 3 * Len(dec.keyframes)
            /\ \A k \in 1..Len(dec.keyframes) : \A i \in 1..3 :
                 LET r == vr[3 * (k - 1) + i]
                     v == FieldUnsigned(r.at, w)
                 IN  /\ r.op = "get_bits_unsigned"
                     /\ r.w = w
                     /\ 0 <= v /\ v <= FieldMax(w)
                     /\ (v \div 1073741824) \div 2 = 0
                     /\ dec.keyframes[k].value.v[i] =
                            [t |-> "affine", v |-> v,
                             scale |-> [s |-> [n |-> 1, d |-> FieldMax(w)],
                                        f |-> VectorHeaderFloat(2 * i - 1)],
                             offset |-> VectorHeaderFloat(2 * i)]

\* C11 witness: a keyframe of width 31 was decoded whose first component
\* has every bit of the field set, and it came out unchanged
C11_Witness ==
    /\ pc = "done"
    /\ outcome = "Keyframes"
    /\ dec.kind = "vec"
    /\ dec.value_bit_count = 31
    /\ Len(dec.keyframes) = 1
    /\ dec.keyframes[1].value.v[1].v = 2147483647

-----------------------------------------------------------------------------
(* Properties of read_file, checked under Spec *)

HeaderPcs == {"quat_header", "dof_header", "vec_header"}

DecoderPcs == HeaderPcs \cup {"quat_loop", "dof_loop", "vec_loop"}

ChannelNo(c) == CASE c = "rotation" -> 1 [] c = "scale" -> 2 [] c = "location" -> 3

\* the channels of cur that read_bone has resolved
RotationResolved ==
    \/ pc \in {"scale", "location"}
    \/ pc \in DecoderPcs /\ chan \in {"scale", "location"}

ScaleResolved ==
    \/ pc = "location"
    \/ pc \in DecoderPcs /\ chan = "location"

\* the keyframes of a channel whose index is 0 or positive: one keyframe at
\* frame 0 with bias 1.0, holding the default value or the static floats
\* from position idx on
ConstantChannel(c, idx, kfs) ==
    /\ Len(kfs) = 1
    /\ kfs[1].frame = 0
    /\ kfs[1].bias = [n |-> 1, d |-> 1]
    /\ IF idx = 0
       THEN kfs[1].value =
              CASE c = "rotation" ->
                     [t |-> "quat", q |-> <<Lin(1, 1), Lin(0, 1), Lin(0, 1), Lin(0, 1)>>]
                [] c = "scale" ->
                     [t |-> "vector", v |-> <<Lin(1, 1), Lin(1, 1), Lin(1, 1)>>]
                [] c = "location" ->
                     [t |-> "vector", v |-> <<Lin(0, 1), Lin(0, 1), Lin(0, 1)>>]
       ELSE IF c = "rotation"
            THEN /\ kfs[1].value.t = "quat"
                 /\ {kfs[1].value.q[k] : k \in 1..4} = {St(j) : j \in idx..(idx + 3)}
            ELSE /\ kfs[1].value.t = "vector"
                 /\ Len(kfs[1].value.v) >= 1
                 /\ \A k \in 1..Len(kfs[1].value.v) : kfs[1].value.v[k] = St(idx + k - 1)

BoneConstantChannels(b, rot, sca, loc) ==
    /\ (rot /\ b.indices[1] >= 0) => ConstantChannel("rotation", b.indices[1], b.rotation_keyframes)
    /\ (sca /\ b.indices[2] >= 0) => ConstantChannel("scale", b.indices[2], b.scale_keyframes)
    /\ (loc /\ b.indices[3] >= 0) => ConstantChannel("location", b.indices[3], b.location_keyframes)

\* index 0 and index > 0, in every bone resolved so far
C1_Constant ==
    /\ \A k \in 1..Len(bones) : BoneConstantChannels(bones[k], TRUE, TRUE, TRUE)
    /\ BoneConstantChannels(cur, RotationResolved, ScaleResolved, FALSE)

\* index < 0 goes to the decoder of the channel, and only index < 0 does
C1_Dispatch ==
    /\ (pc \in HeaderPcs /\ chan # "call") =>
          /\ cur.indices[ChannelNo(chan)] < 0
          /\ dec.kind \in (IF chan = "rotation" THEN {"quat", "dof"} ELSE {"vec"})
    /\ (pc = "scale" /\ cur.indices[1] < 0) =>
          chan = "rotation" /\ cur.rotation_keyframes = dec.keyframes
    /\ (pc = "location" /\ cur.indices[2] < 0) =>
          chan = "scale" /\ cur.scale_keyframes = dec.keyframes
    /\ (pc \in {"bone", "sounds"} /\ Len(bones) > 0 /\ cur.indices[3] < 0) =>
          chan = "location" /\ cur.location_keyframes = dec.keyframes

\* C1 as stated: index == 0 yields one keyframe (frame 0, bias 1.0, default
\* value), index > 0 one keyframe read from the static table at index, and
\* index < 0 dispatches to the channel's decoder, which starts reading the
\* stream at bit offset -index, for every game type.
C1_StartsAtMinusIndex ==
    /\ C1_Constant
    /\ C1_Dispatch
    /\ (pc \in HeaderPcs /\ chan # "call") =>
          dec.start = -cur.indices[ChannelNo(chan)]

\* C1 amended: as C1, but the rotation decoder of THESIMS2PETS,
\* THESIMS2CASTAWAY and THESIMS3 starts at bit offset -index + 1 (the bit
\* at -index is the 1-DOF flag); every other decoder starts at -index.
C1_ChannelResolution ==
    /\ C1_Constant
    /\ C1_Dispatch
    /\ (pc \in HeaderPcs /\ chan # "call") =>
          dec.start = IF chan = "rotation" /\ game_type \in NewerTypes
                      THEN -cur.indices[1] + 1
                      ELSE -cur.indices[ChannelNo(chan)]

\* C1 witness: a newer game type returned an Animation whose first bone
\* has a decoded rotation and default scale and location
C1_Witness ==
    /\ pc = "done"
    /\ outcome = "Animation"
    /\ game_type \in NewerTypes
    /\ Len(bones) >= 1
    /\ bones[1].indices = <<-ChanOff, 0, 0>>
    /\ Len(bones[1].rotation_keyframes) = 1
    /\ Len(bones[1].scale_keyframes) = 1

\* C2: read_file ends in one of two ways, a complete Animation or
\* FileReadError; every exception raised on the way reaches the caller as
\* FileReadError, and then no Animation is returned.
C2_TwoOutcomes ==
    /\ pc = "done" =>
          /\ outcome \in {"Animation", "FileReadError"}
          /\ outcome = "Animation" <=> raised = ""
          /\ outcome = "Animation" =>
                /\ Len(animation.bones) = bone_count
                /\ animation.frame_count # -1
          /\ outcome = "FileReadError" => animation = NoAnimation
    /\ pc # "done" => outcome = "none" /\ raised = "" /\ animation = NoAnimation

\* C2 witness: a scale computation divided by zero in a decoder and the
\* caller saw FileReadError
C2_Witness ==
    /\ pc = "done"
    /\ raised = "ZeroDivisionError"
    /\ outcome = "FileReadError"

\* C3: an Animation is returned only when the file ends exactly at the end
\* of the final padding: a file one byte shorter, and a file with a byte
\* after the padding, both give FileReadError and no Animation.
C3_ExactEnd ==
    /\ (pc = "done" /\ outcome = "Animation") =>
          padStart # -1 /\ flen = padStart + 4
    /\ (pc = "done" /\ padStart # -1 /\ flen = padStart + 3) =>
          outcome = "FileReadError" /\ animation = NoAnimation
    /\ (pc = "done" /\ padStart # -1 /\ flen > padStart + 4) =>
          outcome = "FileReadError" /\ animation = NoAnimation

\* C3 witness: the file lacks the last byte of the final padding
C3_Witness ==
    /\ pc = "done"
    /\ padStart # -1
    /\ flen = padStart + 3
    /\ outcome = "FileReadError"

\* C6: in every Animation returned, every bone's rotation, scale and
\* location sequence has at least one keyframe.
C6_NonEmptySequences ==
    (pc = "done" /\ outcome = "Animation") =>
        \A k \in 1..Len(animation.bones) :
            /\ Len(animation.bones[k].rotation_keyframes) >= 1
            /\ Len(animation.bones[k].scale_keyframes) >= 1
            /\ Len(animation.bones[k].location_keyframes) >= 1

\* C9: for a negative rotation index r, THESIMS2PETS, THESIMS2CASTAWAY and
\* THESIMS3 read the 1-DOF flag at bit offset -r, start the decoder at
\* -r + 1 and choose the 1-DOF decoder iff the flag is set; the other game
\* types read no flag and start the full quaternion decoder at -r.
C9_RotationFlag ==
    /\ (pc \in HeaderPcs /\ chan = "rotation") =>
          LET r == cur.indices[1]
          IN  /\ r < 0
              /\ IF game_type \in NewerTypes
                 THEN /\ reads = <<[f |-> "is_1_dof", op |-> "get_bit", at |-> -r, w |-> 1]>>
                      /\ dec.start = -r + 1
                      /\ dec.kind = "dof" <=> stream[-r + 1] = 1
                 ELSE /\ reads = <<>>
                      /\ dec.kind = "quat"
                      /\ dec.start = -r
    /\ (pc \in DecoderPcs \ HeaderPcs /\ chan = "rotation") =>
          LET first == IF game_type \in NewerTypes THEN 2 ELSE 1
          IN  /\ reads[first].at = dec.start
              /\ \A j \in first..Len(reads) : reads[j].f # "is_1_dof"

\* C9 witness: the flag of a newer game type is set and the 1-DOF decoder
\* is about to read its header
C9_Witness ==
    /\ pc = "dof_header"
    /\ chan = "rotation"
    /\ game_type \in NewerTypes
    /\ stream[-cur.indices[1] + 1] = 1
    /\ dec.start = -cur.indices[1] + 1

\* C10: one call of read_bone moves the file position by the bone_size of
\* the game type (12, 28 or 32), so after k bones the position is
\* bone_position + k * bone_size, and the first seek skipped exactly that
\* table (and the 4 bytes after it).
C10_BoneRecordSize ==
    LET size == CASE game_type = "THESIMS" -> 12
                  [] game_type = "THESIMSBUSTINOUT" -> 28
                  [] OTHER -> 32
    IN  /\ pc = "tables" => pos = bone_position + (bone_count * size) + 4
        /\ pc = "bone" => pos = bone_position + (Len(bones) * size)
        /\ (pc \in {"rotation", "scale", "location"} \/ (pc \in DecoderPcs /\ chan # "call")) =>
              pos = bone_position + ((Len(bones) + 1) * size)
        /\ (pc = "sounds" /\ bone_count > 0) =>
              /\ Len(bones) = bone_count
              /\ pos = bone_position + (bone_count * size)

\* C10 witness: two bones of THESIMSBUSTINOUT are resolved
C10_Witness ==
    /\ pc = "sounds"
    /\ game_type = "THESIMSBUSTINOUT"
    /\ Len(bones) = 2
    /\ pos = bone_position + 56

=============================================================================
